---- MODULE Spec2Model ----
(***************************************************************************)
(* A model of the Wing SDK construct tree (std/node.ts), the GCP Function  *)
(* and Schedule resources (target-tf-gcp/function.ts, schedule.ts) and the *)
(* helpers they rest on.                                                   *)
(*                                                                         *)
(* std/node.ts forwards every call to the node of the `constructs`         *)
(* library; the forwarded operation is modelled together with the wrapper. *)
(***************************************************************************)
EXTENDS Integers, Sequences, FiniteSets, TLC

VARIABLES
    tree,          \* Seq of node records; a construct is its index in tree
    connections,   \* the entries of every Connections registry, in the order added
    addLog,        \* history: every addConnection call, in call order
    handlers,      \* Schedule construct -> (handler _id -> memoized Function)
    functions,     \* the CloudfunctionsFunction leaf resources created so far
    heap,          \* the handler objects allocated so far; a handler is its index
    result         \* what the last operation returned or threw

vars == <<tree, connections, addLog, handlers, functions, heap, result>>

(***************************************************************************)
(* Bounds of the model.                                                    *)
(***************************************************************************)
MaxNodes == 3
MaxLockValidations == 1
MaxValidateNodes == 2
MaxValidations == 5
MaxFindNodes == 4
MaxConnectionNodes == 3
MaxConnections == 2
MaxNameNodes == 4
MaxHandlers == 5

NoNode == 0

\* The id of the root construct and the ids children are created with.
RootId == "App"
HIDDEN_ID == "Default"
ChildIds == {"Default", "Queue"}
\* Locking never reads an id: the locking specification creates every child
\* under one id (siblings arise when a child is removed and created again).
LockIds == {"Queue"}

\* What a validator does when invoked: return no error, return one error
\* string, or throw.
ValidatorKinds == {"pass", "fail", "throw"}

NoResult == [op |-> "none"]

(***************************************************************************)
(* The construct tree.                                                     *)
(***************************************************************************)
Nodes == 1..Len(tree)

NewNode(parent, childId, kind) ==
    [id |-> childId, scope |-> parent, children |-> <<>>,
     lockFlag |-> FALSE, validations |-> <<>>, kind |-> kind]

\* Node.scope
Scope(n) == tree[n].scope

\* Node.children: the direct children, in insertion order
Children(n) == tree[n].children

RECURSIVE Scopes(_)
\* Node.scopes: root first, the construct itself last
Scopes(n) == IF Scope(n) = NoNode THEN <<n>> ELSE Append(Scopes(Scope(n)), n)

\* The ids of Node.scopes (Node.path is their '/'-join)
Path(n) == [i \in 1..Len(Scopes(n)) |-> tree[Scopes(n)[i]].id]

\* Node.root
Root(n) == Scopes(n)[1]

\* Mutant of Locked: only the construct's own flag is read
LockedOwnOnly(n) == tree[n].lockFlag

RECURSIVE Locked(_)
\* Node.locked: this construct or one of the scopes it is defined in is locked
Locked(n) ==
    \/ tree[n].lockFlag
    \/ (Scope(n) # NoNode /\ Locked(Scope(n)))

\* Node.tryFindChild
TryFindChild(n, childId) ==
    LET hits == {i \in 1..Len(Children(n)) : tree[Children(n)[i]].id = childId}
    IN  IF hits = {} THEN NoNode ELSE Children(n)[CHOOSE i \in hits : TRUE]

RECURSIVE Subtree(_)
\* The construct and everything attached beneath it
Subtree(n) ==
    {n} \cup UNION {Subtree(Children(n)[i]) : i \in 1..Len(Children(n))}

\* The tree after new Construct(parent, childId): the construct gets the next
\* index and is appended to the parent's children
Attach(t, parent, childId, kind) ==
    LET n == Len(t) + 1
        grown == Append(t, NewNode(parent, childId, kind))
    IN  [grown EXCEPT ![parent].children = Append(@, n)]

(***************************************************************************)
(* Operations of Node.                                                     *)
(***************************************************************************)
\* Mutant of AddChildUpTo: the lock is not consulted
AddChildNoLockCheck(max, parent, childId) ==
    LET err == IF TryFindChild(parent, childId) # NoNode THEN "DuplicateChildId"
               ELSE "ok"
    IN  /\ err = "ok" => Len(tree) < max
        /\ tree' = IF err = "ok" THEN Attach(tree, parent, childId, "construct")
                    ELSE tree
        /\ result' = [op |-> "addChild", node |-> parent, ok |-> err = "ok",
                       error |-> err]
        /\ UNCHANGED <<connections, addLog, handlers, functions, heap>>

\* new Construct(scope, id): constructs' Node.addChild refuses a locked scope and
\* a sibling of the same id. The model holds at most max constructs; a refused
\* attempt can be made at any size.
AddChildUpTo(max, parent, childId) ==
    LET err == IF Locked(parent) THEN "LockedTreeMutation"
               ELSE IF TryFindChild(parent, childId) # NoNode THEN "DuplicateChildId"
               ELSE "ok"
    IN  /\ err = "ok" => Len(tree) < max
        /\ tree' = IF err = "ok" THEN Attach(tree, parent, childId, "construct")
                    ELSE tree
        /\ result' = [op |-> "addChild", node |-> parent, ok |-> err = "ok",
                       error |-> err]
        /\ UNCHANGED <<connections, addLog, handlers, functions, heap>>

\* Node.tryRemoveChild: deletes the entry of the children mapping, if present
TryRemoveChild(n, childName) ==
    LET c == TryFindChild(n, childName)
    IN  /\ tree' = IF c = NoNode THEN tree
                    ELSE [tree EXCEPT ![n].children = SelectSeq(@, LAMBDA x : x # c)]
        /\ result' = [op |-> "tryRemoveChild", value |-> c # NoNode]
        /\ UNCHANGED <<connections, addLog, handlers, functions, heap>>

\* Node.lock
Lock(n) ==
    /\ tree' = [tree EXCEPT ![n].lockFlag = TRUE]
    /\ result' = [op |-> "lock"]
    /\ UNCHANGED <<connections, addLog, handlers, functions, heap>>

RECURSIVE SumValidations(_)
SumValidations(k) ==
    IF k = 0 THEN 0 ELSE Len(tree[k].validations) + SumValidations(k - 1)

TotalValidations == SumValidations(Len(tree))

\* Node.addValidation, in a model of at most max validators: the validator is
\* pushed on this construct's list. A failing validator's error string names the
\* construct and the validator's place on it.
AddValidationUpTo(max, n, kind) ==
    /\ TotalValidations < max
    /\ tree' = [tree EXCEPT ![n].validations =
                    Append(@, [kind |-> kind,
                               msg |-> <<n, Len(tree[n].validations) + 1>>])]
    /\ result' = [op |-> "addValidation"]
    /\ UNCHANGED <<connections, addLog, handlers, functions, heap>>

Init ==
    /\ tree = <<NewNode(NoNode, RootId, "construct")>>
    /\ connections = <<>>
    /\ addLog = <<>>
    /\ handlers = <<>>
    /\ functions = <<>>
    /\ heap = <<>>
    /\ result = NoResult

Next ==
    \/ \E p \in Nodes, c \in LockIds : AddChildUpTo(MaxNodes, p, c)
    \/ \E n \in Nodes, c \in LockIds : TryRemoveChild(n, c)
    \/ \E n \in Nodes : Lock(n)
    \/ \E n \in Nodes : AddValidationUpTo(MaxLockValidations, n, "fail")

Spec == Init /\ [][Next]_vars

(***************************************************************************)
(* Locking (Spec).                                                         *)
(***************************************************************************)
\* lock() was called on the construct or on one of the scopes it is defined in
InLockedScope(n) == \E i \in 1..Len(Scopes(n)) : tree[Scopes(n)[i]].lockFlag

\* C2: once lock() was called on N, adding a child to N or to a descendant of N
\* fails with LockedTreeMutation and leaves the tree as it was, and locked reads
\* true on N and on every descendant; with no lock on the scope chain the
\* addition succeeds (unless a sibling already has the id).
C2_LockedState ==
    /\ \A n \in Nodes : Locked(n) <=> InLockedScope(n)
    /\ result.op = "addChild" =>
          /\ InLockedScope(result.node) =>
                ~result.ok /\ result.error = "LockedTreeMutation"
          /\ ~InLockedScope(result.node) =>
                result.ok \/ result.error = "DuplicateChildId"

C2_LockedAddFails ==
    /\ []C2_LockedState
    /\ [][(result'.op = "addChild" /\ ~result'.ok) => tree' = tree]_vars

\* C2 witness: an addition to an unlocked descendant of a locked construct was
\* refused.
C2_Witness ==
    /\ result.op = "addChild"
    /\ ~result.ok
    /\ result.error = "LockedTreeMutation"
    /\ ~tree[result.node].lockFlag
    /\ Len(tree) > 1

\* C3 as stated: beneath a locked construct neither the children mapping nor the
\* registered validations of any construct ever change.
C3_LockedSubtreeFrozen ==
    [][\A n \in Nodes : InLockedScope(n) =>
          /\ tree'[n].children = tree[n].children
          /\ tree'[n].validations = tree[n].validations]_vars

\* C3 amended: beneath a locked construct no construct gains a child
\* (tryRemoveChild may still delete one, addValidation may still register one).
C3_LockedSubtreeGainsNoChild ==
    [][\A n \in Nodes : InLockedScope(n) =>
          \A i \in 1..Len(tree'[n].children) :
              \E j \in 1..Len(tree[n].children) :
                  tree'[n].children[i] = tree[n].children[j]]_vars

\* C3 witness: with the root locked, a child was removed and a validation is
\* registered, and the last attempt to add a child was refused.
C3_Witness ==
    /\ tree[1].lockFlag
    /\ \E m \in Nodes : Scope(m) # NoNode /\ m \notin Subtree(Scope(m))
    /\ TotalValidations > 0
    /\ result.op = "addChild"
    /\ ~result.ok


(***************************************************************************)
(* Validation (SpecValidate).                                              *)
(***************************************************************************)
\* What one validator returns: its error strings
ValidatorErrors(v) == IF v.kind = "fail" THEN <<v.msg>> ELSE <<>>

RECURSIVE FlatMapErrors(_)
\* validations.flatMap(v => v.validate())
FlatMapErrors(vs) ==
    IF vs = <<>> THEN <<>>
    ELSE ValidatorErrors(Head(vs)) \o FlatMapErrors(Tail(vs))

RECURSIVE SubtreeValidations(_)
\* Mutant of OwnValidations: the validators of the whole subtree, in PREORDER
SubtreeValidations(n) ==
    LET RECURSIVE Below(_)
        Below(cs) == IF cs = <<>> THEN <<>>
                     ELSE SubtreeValidations(Head(cs)) \o Below(Tail(cs))
    IN  tree[n].validations \o Below(Children(n))

\* The validators Node.validate invokes: those added to this construct
OwnValidations(n) == tree[n].validations

\* Node.validate: a validator that throws ends the call with its exception
Validate(n) ==
    LET vs == OwnValidations(n)
        threw == \E i \in 1..Len(vs) : vs[i].kind = "throw"
    IN  /\ result' = [op |-> "validate", node |-> n, ok |-> ~threw,
                       value |-> IF threw THEN <<>> ELSE FlatMapErrors(vs)]
        /\ UNCHANGED <<tree, connections, addLog, handlers, functions, heap>>

NextValidate ==
    \/ \E p \in Nodes, c \in LockIds : AddChildUpTo(MaxValidateNodes, p, c)
    \/ \E n \in Nodes, k \in ValidatorKinds :
           AddValidationUpTo(MaxValidations, n, k)
    \/ \E n \in Nodes : Validate(n)

SpecValidate == Init /\ [][NextValidate]_vars

\* The failing validators registered on the constructs of a set
FailingOn(S) ==
    {<<m, i>> : m \in S, i \in 1..MaxValidations + 1} \cap
    UNION {{<<m, i>> : i \in {j \in 1..Len(tree[m].validations) :
                                  tree[m].validations[j].kind = "fail"}} : m \in S}

Range(f) == {f[i] : i \in DOMAIN f}

\* C8 as stated: validate() returns, without throwing, the error strings of every
\* failing validator of the construct and of its descendants, one message each.
C8_ValidateWholeSubtree ==
    result.op = "validate" =>
        /\ result.ok
        /\ Range(result.value) = FailingOn(Subtree(result.node))
        /\ Len(result.value) = Cardinality(FailingOn(Subtree(result.node)))

\* C8 amended: validate() invokes the validators registered on the construct
\* itself, in registration order, and no validator of a descendant; it throws
\* when one of them throws and otherwise returns exactly the error strings of
\* the failing ones, in registration order.
C8_ValidateOwnValidators ==
    result.op = "validate" =>
        LET n == result.node
            vs == tree[n].validations
            failing == {j \in 1..Len(vs) : vs[j].kind = "fail"}
        IN  /\ result.ok <=> \A j \in 1..Len(vs) : vs[j].kind # "throw"
            /\ result.ok =>
                  /\ Len(result.value) = Cardinality(failing)
                  /\ \A i \in 1..Len(result.value) :
                        /\ result.value[i][1] = n
                        /\ result.value[i][2] \in failing
                        /\ i > 1 => result.value[i - 1][2] < result.value[i][2]

\* C8 witness: validate() on a construct holding 3 failing validators and a
\* passing one, with a further failing validator on its child, returned exactly
\* the 3 messages of its own.
C8_Witness ==
    /\ result.op = "validate"
    /\ result.ok
    /\ Len(result.value) = 3
    /\ Len(tree[result.node].validations) = 4
    /\ \E c \in Subtree(result.node) \ {result.node} :
           \E j \in 1..Len(tree[c].validations) :
               tree[c].validations[j].kind = "fail"


(***************************************************************************)
(* Traversal (SpecFind).                                                   *)
(***************************************************************************)
ConstructOrder == {"PREORDER", "POSTORDER"}

RECURSIVE VisitPushFirst(_, _, _)
RECURSIVE Visit(_, _, _)
RECURSIVE VisitEach(_, _, _)

\* Mutant of Visit: the construct is pushed before its children in either order
VisitPushFirst(ret, c, order) == VisitEach(Append(ret, c), Children(c), order)

\* visit(c) of findAll: push c (PREORDER), visit each child, push c (POSTORDER)
Visit(ret, c, order) ==
    LET pre == IF order = "PREORDER" THEN Append(ret, c) ELSE ret
        mid == VisitEach(pre, Children(c), order)
    IN  IF order = "POSTORDER" THEN Append(mid, c) ELSE mid

\* for (const child of c.node.children) visit(child)
VisitEach(ret, cs, order) ==
    IF cs = <<>> THEN ret
    ELSE VisitEach(Visit(ret, Head(cs), order), Tail(cs), order)

\* Node.findAll
FindAll(n, order) ==
    /\ result' = [op |-> "findAll", node |-> n, order |-> order,
                   value |-> Visit(<<>>, n, order)]
    /\ UNCHANGED <<tree, connections, addLog, handlers, functions, heap>>

NextFind ==
    \/ \E p \in Nodes, c \in ChildIds : AddChildUpTo(MaxFindNodes, p, c)
    \/ \E n \in Nodes, c \in ChildIds : TryRemoveChild(n, c)
    \/ \E n \in Nodes, o \in ConstructOrder : FindAll(n, o)

SpecFind == Init /\ [][NextFind]_vars

\* x is a proper ancestor of y
IsAncestor(x, y) == x # y /\ \E i \in 1..Len(Scopes(y)) : Scopes(y)[i] = x

\* The scope of x that is a direct child of z (x lies strictly beneath z)
BranchUnder(z, x) ==
    LET i == CHOOSE k \in 1..Len(Scopes(x)) : Scopes(x)[k] = z
    IN  Scopes(x)[i + 1]

\* Where x must stand relative to y in a traversal: an ancestor before (PREORDER)
\* or after (POSTORDER) its descendants, and otherwise in the order in which the
\* two branches were inserted under their deepest common scope. A construct's
\* number is its creation number, and a child is inserted when it is created.
MustPrecede(x, y, order) ==
    IF IsAncestor(x, y) THEN order = "PREORDER"
    ELSE IF IsAncestor(y, x) THEN order = "POSTORDER"
    ELSE LET common == {z \in Nodes : IsAncestor(z, x) /\ IsAncestor(z, y)}
             z == CHOOSE c \in common : \A d \in common : Len(Scopes(d)) <= Len(Scopes(c))
         IN  BranchUnder(z, x) < BranchUnder(z, y)

\* C10: findAll returns every construct of the subtree exactly once; PREORDER
\* puts a construct before its descendants and POSTORDER after them, and the
\* children of a construct are visited in insertion order.
C10_FindAllOrder ==
    result.op = "findAll" =>
        LET s == result.value
        IN  /\ Range(s) = Subtree(result.node)
            /\ Len(s) = Cardinality(Subtree(result.node))
            /\ \A i, j \in 1..Len(s) :
                  i < j => MustPrecede(s[i], s[j], result.order)

\* C10 witness: on root R with child A and grandchild B, findAll(POSTORDER)
\* returned [B, A, R].
C10_Witness ==
    /\ result.op = "findAll"
    /\ result.order = "POSTORDER"
    /\ result.node = 1
    /\ Len(tree) >= 3
    /\ Children(1) = <<2>>
    /\ Children(2) = <<3>>
    /\ result.value = <<3, 2, 1>>


(***************************************************************************)
(* Connections (SpecConnections).                                          *)
(***************************************************************************)
ConnectionNames == {"onTick()"}

\* Mutant of ConnectionsOf: every construct's Node gets a registry of its own
ConnectionsOfOwn(n) == n

\* Connections.of(construct), as the Node constructor calls it: the instance
\* cached for the whole tree, named here by the tree's root
ConnectionsOf(n) == Root(n)

\* Connections.add on the registry reg: the entry is appended
ConnectionsAdd(all, reg, props) == Append(all, [registry |-> reg, conn |-> props])

\* The connections of a sequence of entries, in order
Conns(entries) == [i \in 1..Len(entries) |-> entries[i].conn]

\* The sequence of the registry a construct's Node holds
RegistryOf(n) ==
    LET reg == ConnectionsOf(n)
    IN  Conns(SelectSeq(connections, LAMBDA e : e.registry = reg))

\* Node.of(via).addConnection(props), in a model of at most max calls
AddConnectionUpTo(max, via, props) ==
    /\ Len(addLog) < max
    /\ connections' = ConnectionsAdd(connections, ConnectionsOf(via), props)
    /\ addLog' = Append(addLog, [via |-> via, conn |-> props])
    /\ result' = [op |-> "addConnection"]
    /\ UNCHANGED <<tree, handlers, functions, heap>>

\* Two construct trees, each a root
InitConnections ==
    /\ tree = <<NewNode(NoNode, RootId, "construct"),
                NewNode(NoNode, RootId, "construct")>>
    /\ connections = <<>>
    /\ addLog = <<>>
    /\ handlers = <<>>
    /\ functions = <<>>
    /\ heap = <<>>
    /\ result = NoResult

NextConnections ==
    \/ \E p \in Nodes, c \in LockIds : AddChildUpTo(MaxConnectionNodes, p, c)
    \/ \E n \in Nodes, c \in LockIds : TryRemoveChild(n, c)
    \/ \E via \in Nodes, t \in Nodes, nm \in ConnectionNames :
           AddConnectionUpTo(MaxConnections, via,
                             [source |-> via, target |-> t, name |-> nm])

SpecConnections == InitConnections /\ [][NextConnections]_vars

MEMORY_MIN == 128
MEMORY_MAX == 8192
TIMEOUT_MIN == 1
TIMEOUT_MAX == 540
DEFAULT_MEMORY == 128
DEFAULT_TIMEOUT == 60

\* The handler identities (inflight._id) the model binds
Handlers == {"h1", "h2"}

\* cloud.FunctionProps: memory (MB) and timeout (a Duration), each optional
MemoryValues == {0, 127, 128, 8192, 8193}
TimeoutValues == {0, 1, 540, 541}
NoProps == [hasMemory |-> FALSE, memory |-> 0, hasTimeout |-> FALSE, timeout |-> 0]
FunctionProps ==
    {NoProps}
    \cup {[NoProps EXCEPT !.hasMemory = TRUE, !.memory = m] : m \in MemoryValues}
    \cup {[NoProps EXCEPT !.hasTimeout = TRUE, !.timeout = t] : t \in TimeoutValues}
    \cup {[hasMemory |-> TRUE, memory |-> m, hasTimeout |-> TRUE, timeout |-> t] :
             m \in {0, 128}, t \in {0, 540}}

\* The options onTick is called with (cloud.ScheduleOnTickOptions)
OnTickProps == {NoProps, [NoProps EXCEPT !.hasMemory = TRUE, !.memory = 8193]}

\* function.ts:92, props?.memory && (...): a supplied memory of 0 is falsy and
\* skips the range check
MemoryOutOfRange(props) ==
    /\ props.hasMemory
    /\ props.memory # 0
    /\ (props.memory < MEMORY_MIN \/ props.memory > MEMORY_MAX)

\* function.ts:99, the timeout check: a supplied Duration is an object, truthy
\* whatever its seconds
TimeoutOutOfRange(props) ==
    /\ props.hasTimeout
    /\ (props.timeout < TIMEOUT_MIN \/ props.timeout > TIMEOUT_MAX)

\* Why attaching a child with this id under parent is refused in tree t, or "ok"
AddChildError(t, parent, childId) ==
    LET LockedIn[n \in 1..Len(t)] ==
            t[n].lockFlag \/ (t[n].scope # NoNode /\ LockedIn[t[n].scope])
        clash == \E i \in 1..Len(t[parent].children) :
                     t[t[parent].children[i]].id = childId
    IN  IF LockedIn[parent] THEN "LockedTreeMutation"
        ELSE IF clash THEN "DuplicateChildId"
        ELSE "ok"

\* new Function(scope, id, inflight, props) on tree t: the tree and leaf
\* resources afterwards, and what the constructor returned or threw
ConstructFunction(t, fs, scope, id, inflight, props) ==
    LET err == AddChildError(t, scope, id)
        fn == Len(t) + 1
        t1 == Attach(t, scope, id, "function")
        t2 == Attach(t1, fn, "Asset", "leaf")
        t3 == Attach(t2, fn, "Id", "leaf")
        t4 == Attach(t3, fn, "Function_Bucket", "leaf")
        t5 == Attach(t4, fn, "Function_Object_Bucket", "leaf")
        t6 == Attach(t5, fn, "Default_Function", "leaf")
    IN  IF err # "ok"
        THEN [tree |-> t, functions |-> fs, ok |-> FALSE, error |-> err,
              node |-> NoNode]
        ELSE IF MemoryOutOfRange(props) \/ TimeoutOutOfRange(props)
        THEN [tree |-> t5, functions |-> fs, ok |-> FALSE,
              error |-> "ConstraintViolation", node |-> NoNode]
        ELSE [tree |-> t6,
              functions |-> Append(fs,
                  [node |-> fn, leaf |-> Len(t6), inflight |-> inflight,
                   availableMemoryMb |-> IF props.hasMemory THEN props.memory
                                         ELSE DEFAULT_MEMORY,
                   timeout |-> IF props.hasTimeout THEN props.timeout
                               ELSE DEFAULT_TIMEOUT]),
              ok |-> TRUE, error |-> "none", node |-> fn]

FunctionIds == {"Function"}

\* new Function(scope, id, inflight, props), called directly
NewFunction(scope, id, h, props) ==
    LET r == ConstructFunction(tree, functions, scope, id, [id |-> h], props)
    IN  /\ tree' = r.tree
        /\ functions' = r.functions
        /\ result' = [op |-> "newFunction", props |-> props, ok |-> r.ok,
                       error |-> r.error, value |-> r.node]
        /\ UNCHANGED <<connections, addLog, handlers, heap>>

\* convertBetweenHandlers(baseHandler, newHandlerClientPath,
\* newHandlerClientClassName, args)
ConvertBetweenHandlers(baseHandler, clientPath, clientName, args) ==
    [entrypoint |-> clientPath, clientName |-> clientName,
     handler |-> baseHandler, args |-> args]

\* App.makeId(scope, "OnTick"): the prefix and the number of ids made with it
\* for this scope so far
OnTickIds == <<"OnTick0", "OnTick1", "OnTick2">>
MakeId(t, scope) ==
    OnTickIds[1 + Cardinality({n \in 1..Len(t) :
                                 t[n].scope = scope /\ t[n].kind = "function"})]

\* Schedule.onTick(inflight, props)
OnTick(S, h, props) ==
    LET prior == handlers[S][h]
        apiErr == AddChildError(tree, S, "CloudSchedulerAPI")
        t1 == Attach(tree, S, "CloudSchedulerAPI", "leaf")
        functionHandler ==
            ConvertBetweenHandlers([id |-> h], "schedule.ontick.inflight.js",
                                   "ScheduleOnTickHandlerClient", <<>>)
        made == ConstructFunction(t1, functions, S, MakeId(t1, S),
                                  functionHandler, props)
        saErr == AddChildError(made.tree, S, "SchedulerServiceAccount")
        t2 == Attach(made.tree, S, "SchedulerServiceAccount", "leaf")
        jobErr == AddChildError(t2, S, "Scheduler")
        t3 == Attach(t2, S, "Scheduler", "leaf")
        memo == [handlers EXCEPT ![S][h] = made.node]
        Threw(t, fs, hs, err) ==
            /\ tree' = t
            /\ functions' = fs
            /\ handlers' = hs
            /\ result' = [op |-> "onTick", node |-> S, handler |-> h,
                           prior |-> prior, ok |-> FALSE, error |-> err,
                           value |-> NoNode]
            /\ UNCHANGED <<connections, addLog, heap>>
    IN  IF apiErr # "ok" THEN Threw(tree, functions, handlers, apiErr)
        ELSE IF prior # NoNode
        THEN /\ tree' = t1
             /\ result' = [op |-> "onTick", node |-> S, handler |-> h,
                            prior |-> prior, ok |-> TRUE, error |-> "none",
                            value |-> prior]
             /\ UNCHANGED <<connections, addLog, handlers, functions, heap>>
        ELSE IF ~made.ok THEN Threw(made.tree, made.functions, handlers, made.error)
        ELSE IF saErr # "ok" THEN Threw(made.tree, made.functions, memo, saErr)
        ELSE IF jobErr # "ok" THEN Threw(t2, made.functions, memo, jobErr)
        ELSE /\ tree' = t3
             /\ functions' = made.functions
             /\ UNCHANGED heap
             /\ handlers' = memo
             /\ connections' = ConnectionsAdd(connections, ConnectionsOf(S),
                                   [source |-> S, target |-> made.node,
                                    name |-> "onTick()"])
             /\ addLog' = Append(addLog,
                                 [via |-> S,
                                  conn |-> [source |-> S, target |-> made.node,
                                            name |-> "onTick()"]])
             /\ result' = [op |-> "onTick", node |-> S, handler |-> h,
                            prior |-> prior, ok |-> TRUE, error |-> "none",
                            value |-> made.node]

Schedules == {n \in Nodes : tree[n].kind = "schedule"}

\* An app with two schedules
InitSchedule ==
    /\ tree = Attach(Attach(<<NewNode(NoNode, RootId, "construct")>>,
                            1, "Schedule", "schedule"),
                     1, "Schedule2", "schedule")
    /\ connections = <<>>
    /\ addLog = <<>>
    /\ handlers = [s \in {2, 3} |-> [h \in Handlers |-> NoNode]]
    /\ functions = <<>>
    /\ heap = <<>>
    /\ result = NoResult

NextSchedule ==
    \/ \E S \in Schedules, h \in Handlers, p \in OnTickProps : OnTick(S, h, p)
    \/ \E id \in FunctionIds, h \in Handlers, p \in FunctionProps :
           NewFunction(1, id, h, p)

SpecSchedule == InitSchedule /\ [][NextSchedule]_vars

\* C1: a second onTick with a handler the schedule already bound succeeds,
\* returns the Function of the first call and leaves the schedule with one
\* OnTick function child.
C1_SecondOnTickMemoized ==
    (result.op = "onTick" /\ result.prior # NoNode) =>
        /\ result.ok
        /\ result.value = result.prior
        /\ Cardinality({c \in Subtree(result.node) :
                           Scope(c) = result.node /\ tree[c].kind = "function"}) = 1

\* C4: a supplied memory outside [128, 8192] or a supplied timeout outside
\* [1, 540] makes the constructor fail with ConstraintViolation, a value in range
\* or absent lets it succeed, and no leaf function carries a value out of range.
C4_ConstraintsEnforced ==
    /\ result.op = "newFunction" =>
          LET p == result.props
              bad == \/ p.hasMemory /\ (p.memory < MEMORY_MIN \/ p.memory > MEMORY_MAX)
                     \/ p.hasTimeout /\ (p.timeout < TIMEOUT_MIN \/ p.timeout > TIMEOUT_MAX)
          IN  /\ bad => ~result.ok /\ result.error = "ConstraintViolation"
              /\ ~bad => result.ok \/ result.error = "DuplicateChildId"
    /\ \A i \in 1..Len(functions) :
          /\ functions[i].availableMemoryMb >= MEMORY_MIN
          /\ functions[i].availableMemoryMb <= MEMORY_MAX
          /\ functions[i].timeout >= TIMEOUT_MIN
          /\ functions[i].timeout <= TIMEOUT_MAX

\* C13: an onTick on a schedule S with a handler S has not bound, after S bound
\* another handler, succeeds and returns a Function that S's memo table holds
\* under that handler and under no other handler of any schedule, and the last
\* connection added is (S, that Function, "onTick()").
C13_DistinctHandlersDistinctFunctions ==
    (/\ result.op = "onTick"
     /\ result.prior = NoNode
     /\ result.error # "ConstraintViolation"
     /\ \E h \in Handlers :
           h # result.handler /\ handlers[result.node][h] # NoNode)
        => /\ result.ok
           /\ result.value # NoNode
           /\ handlers[result.node][result.handler] = result.value
           /\ \A S \in DOMAIN handlers, h \in Handlers :
                 (<<S, h>> # <<result.node, result.handler>>)
                     => handlers[S][h] # result.value
           /\ addLog # <<>>
           /\ addLog[Len(addLog)].conn
                = [source |-> result.node, target |-> result.value,
                   name |-> "onTick()"]

(***************************************************************************)
(* Addresses and resource names (SpecNames).                               *)
(***************************************************************************)
Lower == <<"a", "b", "c", "d", "e", "f", "g", "h", "i", "j", "k", "l", "m", "n", "o", "p", "q", "r", "s", "t", "u", "v", "w", "x", "y", "z">>
Upper == <<"A", "B", "C", "D", "E", "F", "G", "H", "I", "J", "K", "L", "M", "N", "O", "P", "Q", "R", "S", "T", "U", "V", "W", "X", "Y", "Z">>
HexDigits == <<"0", "1", "2", "3", "4", "5", "6", "7", "8", "9", "a", "b", "c", "d", "e", "f">>
DecDigits == {"0", "1", "2", "3", "4", "5", "6", "7", "8", "9"}

\* The characters of an id
IdChars(id) ==
    CASE id = "App" -> <<"A", "p", "p">>
      [] id = "Default" -> <<"D", "e", "f", "a", "u", "l", "t">>
      [] id = "Queue" -> <<"Q", "u", "e", "u", "e">>
      [] id = "My_Function" -> <<"M", "y", "_", "F", "u", "n", "c", "t", "i", "o", "n">>

NameIds == {"Default", "My_Function"}

\* A stand-in for the bytes of an id in the digest: its number
IdCode(id) ==
    CASE id = "App" -> 1
      [] id = "Default" -> 2
      [] id = "Queue" -> 3
      [] id = "My_Function" -> 4

ADDR_HEX_LEN == 40
HASH_BASE == 5

RECURSIVE DigestNoElision(_, _)
\* Mutant of Digest: `Default` components are hashed like any other
DigestNoElision(components, h) ==
    IF components = <<>> THEN h
    ELSE DigestNoElision(Tail(components), h * HASH_BASE + IdCode(Head(components)))

RECURSIVE Digest(_, _)
\* constructs' addressOf: every component but `Default` is fed to the hash, in
\* path order. SHA-1 is stood in for by an injective numbering of the sequence
\* of components fed (collisions are not modelled).
Digest(components, h) ==
    IF components = <<>> THEN h
    ELSE IF Head(components) = HIDDEN_ID THEN Digest(Tail(components), h)
    ELSE Digest(Tail(components), h * HASH_BASE + IdCode(Head(components)))

RECURSIVE HexOf(_, _)
\* digest('hex'): len hex digits; the digit of lowest weight comes first, so
\* that a prefix of the address tells digests apart as a prefix of SHA-1 does
HexOf(h, len) ==
    IF len = 0 THEN <<>>
    ELSE <<HexDigits[(h % 16) + 1]>> \o HexOf(h \div 16, len - 1)

\* Mutant of AddrOfPath: only the construct's own id is hashed
AddrOfLeaf(path) == <<"c", "8">> \o HexOf(Digest(<<path[Len(path)]>>, 0), ADDR_HEX_LEN)

\* Node.addr: "c8" followed by 40 lowercase hexadecimal characters
AddrOfPath(path) == <<"c", "8">> \o HexOf(Digest(path, 0), ADDR_HEX_LEN)

Addr(n) == AddrOfPath(Path(n))

\* CaseConventions
ToLower(c) ==
    IF \E i \in 1..Len(Upper) : Upper[i] = c
    THEN Lower[CHOOSE i \in 1..Len(Upper) : Upper[i] = c] ELSE c

ToUpper(c) ==
    IF \E i \in 1..Len(Lower) : Lower[i] = c
    THEN Upper[CHOOSE i \in 1..Len(Lower) : Lower[i] = c] ELSE c

ApplyCase(chars, convention) ==
    [i \in 1..Len(chars) |->
        CASE convention = "lowercase" -> ToLower(chars[i])
          [] convention = "uppercase" -> ToUpper(chars[i])
          [] OTHER -> chars[i]]

IsLowerAlnum(c) == (\E i \in 1..Len(Lower) : Lower[i] = c) \/ c \in DecDigits

\* Whether a character matches a disallowed pattern
Matches(pattern, c) ==
    CASE pattern = "[^a-z0-9]+" -> ~IsLowerAlnum(c)
      [] pattern = "([^a-z0-9_\\-]+)" -> ~IsLowerAlnum(c) /\ c \notin {"_", "-"}
      [] pattern = "_" -> c = "_"

\* The naming constraint configurations of function.ts, the scenario of the
\* specification, and variations of them
FUNCTION_NAME_OPTS ==
    [maxLen |-> 32, disallowedRegex |-> "[^a-z0-9]+", case |-> "lowercase",
     includeHash |-> TRUE]
BUCKET_NAME_OPTS ==
    [maxLen |-> 54, disallowedRegex |-> "([^a-z0-9_\\-]+)", case |-> "lowercase",
     includeHash |-> FALSE]
SCENARIO_OPTS ==
    [maxLen |-> 10, disallowedRegex |-> "_", case |-> "lowercase",
     includeHash |-> TRUE]
NameOptions ==
    {FUNCTION_NAME_OPTS, BUCKET_NAME_OPTS, SCENARIO_OPTS}
    \cup {[SCENARIO_OPTS EXCEPT !.maxLen = 16, !.case = "none"],
          [SCENARIO_OPTS EXCEPT !.maxLen = 6],
          [FUNCTION_NAME_OPTS EXCEPT !.maxLen = 16, !.case = "uppercase"],
          [BUCKET_NAME_OPTS EXCEPT !.maxLen = 8]}

SEP == "-"
HASH_LEN == 8

\* The reserved suffix: the separator and the first HASH_LEN characters of the
\* address
HashSuffix(path) == <<SEP>> \o SubSeq(AddrOfPath(path), 1, HASH_LEN)

\* Steps 2 and 3 on one segment: characters matching the pattern are stripped,
\* then the case convention is applied
CleanSegment(id, opts) ==
    ApplyCase(SelectSeq(IdChars(id), LAMBDA c : ~Matches(opts.disallowedRegex, c)),
              opts.case)

RECURSIVE Concat(_)
Concat(segments) ==
    IF segments = <<>> THEN <<>> ELSE Head(segments) \o Concat(Tail(segments))

\* Mutant of DropLeading: nothing is cut
DropLeadingNever(segments, room) == segments

RECURSIVE DropLeading(_, _)
\* Step 5: root-most segments are dropped while the rest exceeds the room; a
\* last segment that alone exceeds it is cut to the room
DropLeading(segments, room) ==
    IF Len(Concat(segments)) <= room THEN segments
    ELSE IF Len(segments) > 1 THEN DropLeading(Tail(segments), room)
    ELSE <<SubSeq(segments[1], 1, IF room > 0 THEN room ELSE 0)>>

\* ResourceNames.generateName on the construct at a path
GenerateName(path, opts) ==
    LET suffix == IF opts.includeHash THEN HashSuffix(path) ELSE <<>>
        cleaned == [i \in 1..Len(path) |-> CleanSegment(path[i], opts)]
        kept == DropLeading(cleaned, opts.maxLen - Len(suffix))
    IN  Concat(kept) \o suffix

\* Every construct of the tree is named under one configuration, and its
\* address taken (ResourceNames.generateName and Node.addr on each construct)
GenerateNames(opts) ==
    /\ result' = [op |-> "generateName", opts |-> opts,
                  names |-> [n \in Nodes |-> GenerateName(Path(n), opts)],
                  addrs |-> [n \in Nodes |-> Addr(n)]]
    /\ UNCHANGED <<tree, connections, addLog, handlers, functions, heap>>

NextNames ==
    \/ \E p \in Nodes, c \in NameIds : AddChildUpTo(MaxNameNodes, p, c)
    \/ \E o \in NameOptions : GenerateNames(o)

SpecNames == Init /\ [][NextNames]_vars

\* A path with its `Default` segments removed
WithoutDefault(path) == SelectSeq(path, LAMBDA x : x # "Default")

IsAddress(addr) ==
    /\ Len(addr) = 42
    /\ addr[1] = "c"
    /\ addr[2] = "8"
    /\ \A i \in 3..42 : \E d \in 1..16 : HexDigits[d] = addr[i]

\* C7: an address is "c8" and 40 hex digits, and two constructs whose paths are
\* equal once every `Default` segment is removed have the same address: an
\* address changes only when a segment other than `Default` changes.
C7_AddrIgnoresDefault ==
    result.op = "generateName" =>
        \A a \in DOMAIN result.addrs :
            /\ IsAddress(result.addrs[a])
            /\ \A b \in DOMAIN result.addrs :
                  WithoutDefault(Path(a)) = WithoutDefault(Path(b))
                      => result.addrs[a] = result.addrs[b]

\* C7 witness: two constructs whose paths differ by a `Default` segment in the
\* middle of the path were given one address.
C7_Witness ==
    /\ result.op = "generateName"
    /\ \E a \in DOMAIN result.addrs, b \in DOMAIN result.addrs :
          /\ a # b
          /\ tree[a].id = "My_Function"
          /\ tree[b].id = "My_Function"
          /\ WithoutDefault(Path(a)) = WithoutDefault(Path(b))
          /\ result.addrs[a] = result.addrs[b]

\* C5 as stated: two distinct constructs of a tree never get the same name when
\* the hash is included.
C5_NamesDistinct ==
    (result.op = "generateName" /\ result.opts.includeHash) =>
        \A a \in DOMAIN result.names, b \in DOMAIN result.names :
            a # b => result.names[a] # result.names[b]

\* C5 amended: two distinct constructs whose paths differ in a segment other
\* than `Default` get different names when the hash is included.
C5_NamesDistinctUpToDefault ==
    (result.op = "generateName" /\ result.opts.includeHash) =>
        \A a \in DOMAIN result.names, b \in DOMAIN result.names :
            WithoutDefault(Path(a)) # WithoutDefault(Path(b))
                => result.names[a] # result.names[b]

\* C5 witness: two constructs of different paths whose names were truncated to
\* the same human-readable part and differ in the hash suffix alone.
C5_Witness ==
    /\ result.op = "generateName"
    /\ result.opts.includeHash
    /\ result.opts.maxLen > HASH_LEN + 1
    /\ \E a \in DOMAIN result.names, b \in DOMAIN result.names :
          /\ WithoutDefault(Path(a)) # WithoutDefault(Path(b))
          /\ Len(result.names[a]) = result.opts.maxLen
          /\ Len(result.names[b]) = result.opts.maxLen
          /\ SubSeq(result.names[a], 1, result.opts.maxLen - HASH_LEN)
               = SubSeq(result.names[b], 1, result.opts.maxLen - HASH_LEN)
          /\ result.names[a] # result.names[b]

\* The parts of a generated name the claims speak of
NameParts(path, opts, name) ==
    LET suffix == IF opts.includeHash
                  THEN <<"-">> \o SubSeq(AddrOfPath(path), 1, HASH_LEN) ELSE <<>>
        cleaned == [i \in 1..Len(path) |-> CleanSegment(path[i], opts)]
    IN  [suffix |-> suffix,
         cleaned |-> cleaned,
         leaf |-> cleaned[Len(path)],
         room |-> opts.maxLen - Len(suffix),
         needed |-> Len(Concat(cleaned)) + Len(suffix) > opts.maxLen,
         human |-> SubSeq(name, 1, Len(name) - Len(suffix)),
         tail |-> SubSeq(name, Len(name) - Len(suffix) + 1, Len(name))]

EndsWith(s, t) == Len(t) <= Len(s) /\ SubSeq(s, Len(s) - Len(t) + 1, Len(s)) = t

CaseKeepsAllowed(opts) ==
    \A id \in NameIds \cup {RootId} : \A i \in 1..Len(IdChars(id)) :
        LET c == IdChars(id)[i]
        IN  ~Matches(opts.disallowedRegex, c)
              => ~Matches(opts.disallowedRegex, ApplyCase(<<c>>, opts.case)[1])

HandlerRefs == 1..Len(heap)
NoArgs == [corsHeaders |-> [defined |-> FALSE, allowOrigin |-> ""]]
BaseHandler(id) ==
    [_id |-> id, entrypoint |-> "user", clientName |-> "user",
     handler |-> NoNode, args |-> NoArgs]

\* cloud.ApiCorsOptions as passed to toFunctionHandler: absent, or an origin
CorsOptions == {"undefined", "*", "https://a"}

\* cloud.Api.renderCorsHeaders(corsOptions)?.defaultResponse
RenderCorsHeaders(corsOptions) ==
    IF corsOptions = "undefined"
    THEN [defined |-> FALSE, allowOrigin |-> ""]
    ELSE [defined |-> TRUE, allowOrigin |-> corsOptions]

\* The converted handler as an object of the heap: a fresh closure id, and the
\* fields convertBetweenHandlers gives it
NewHandler(h, clientPath, clientName, args) ==
    LET c == ConvertBetweenHandlers(h, clientPath, clientName, args)
    IN  [_id |-> Len(heap) + 1, entrypoint |-> c.entrypoint,
         clientName |-> c.clientName, handler |-> c.handler, args |-> c.args]

\* A conversion that stores the adapter in the original handler object
ConvertInPlace(h, clientPath, clientName, args, op) ==
    /\ Len(heap) < MaxHandlers
    /\ heap' = [heap EXCEPT ![h] = [NewHandler(h, clientPath, clientName, args)
                                       EXCEPT !._id = heap[h]._id]]
    /\ result' = [op |-> op, handler |-> h, args |-> args, value |-> h]
    /\ UNCHANGED <<tree, connections, addLog, handlers, functions>>

\* return convertBetweenHandlers(handler, path, className, args): a new object
Convert(h, clientPath, clientName, args, op) ==
    /\ Len(heap) < MaxHandlers
    /\ heap' = Append(heap, NewHandler(h, clientPath, clientName, args))
    /\ result' = [op |-> op, handler |-> h, args |-> args,
                  value |-> Len(heap) + 1]
    /\ UNCHANGED <<tree, connections, addLog, handlers, functions>>

\* ApiEndpointHandler.toFunctionHandler(handler, corsOptions)
ToFunctionHandler(h, corsOptions) ==
    Convert(h, "api.onrequest.inflight.js", "ApiOnRequestHandlerClient",
            [corsHeaders |-> RenderCorsHeaders(corsOptions)],
            "toFunctionHandler")

\* The conversion of Schedule.onTick: no extra bound properties
ToOnTickHandler(h) ==
    Convert(h, "schedule.ontick.inflight.js", "ScheduleOnTickHandlerClient",
            NoArgs, "toOnTickHandler")

\* Two inflights written by the user
InitConvert ==
    /\ tree = <<NewNode(NoNode, RootId, "construct")>>
    /\ connections = <<>>
    /\ addLog = <<>>
    /\ handlers = <<>>
    /\ functions = <<>>
    /\ heap = <<BaseHandler(1), BaseHandler(2)>>
    /\ result = NoResult

NextConvert ==
    \/ \E h \in HandlerRefs, c \in CorsOptions : ToFunctionHandler(h, c)
    \/ \E h \in HandlerRefs : ToOnTickHandler(h)

SpecConvert == InitConvert /\ [][NextConvert]_vars

IsConversion == result.op \in {"toFunctionHandler", "toOnTickHandler"}

JsString == [typeof |-> "string", value |-> "prod"]
JsNumber == [typeof |-> "number", value |-> "42"]
JsUndefined == [typeof |-> "undefined", value |-> ""]
FieldValues == {JsString, JsNumber, JsUndefined}
TypeOf(v) == v.typeof

\* The runtime classes of the objects passed: the Api classes of the AWS
\* targets, which implement IAwsApi, and the Api class of another target
AwsApiTypes == {"tf-aws.Api", "awscdk.Api"}
OtherApiTypes == {"sim.Api"}

\* IAwsApi: the six readonly string fields
AwsApiObjects ==
    {[type |-> t, restApiArn |-> JsString, restApiId |-> JsString,
      restApiName |-> JsString, stageName |-> JsString, invokeUrl |-> JsString,
      deploymentId |-> JsString] : t \in AwsApiTypes}

OtherApiObjects ==
    [type : OtherApiTypes, restApiArn : FieldValues, restApiId : FieldValues,
     restApiName : FieldValues, stageName : FieldValues, invokeUrl : FieldValues,
     deploymentId : FieldValues]

ApiObjects == AwsApiObjects \cup OtherApiObjects

\* What `undefined` is recorded as where an object may be returned
UndefinedApi ==
    [type |-> "undefined", restApiArn |-> JsUndefined, restApiId |-> JsUndefined,
     restApiName |-> JsUndefined, stageName |-> JsUndefined,
     invokeUrl |-> JsUndefined, deploymentId |-> JsUndefined]

\* A test of the runtime class in place of the test of the fields
IsAwsApiByType(obj) == obj.type \in AwsApiTypes

\* Api.isAwsApi(obj)
IsAwsApi(obj) ==
    /\ TypeOf(obj.restApiArn) = "string"
    /\ TypeOf(obj.restApiId) = "string"
    /\ TypeOf(obj.restApiName) = "string"
    /\ TypeOf(obj.stageName) = "string"
    /\ TypeOf(obj.invokeUrl) = "string"
    /\ TypeOf(obj.deploymentId) = "string"

\* Api.from(api); the object is recorded as it was before and after the call
ApiFrom(api) ==
    /\ result' = [op |-> "from", api |-> api, after |-> api,
                  defined |-> IsAwsApi(api),
                  value |-> IF IsAwsApi(api) THEN api ELSE UndefinedApi]
    /\ UNCHANGED <<tree, connections, addLog, handlers, functions, heap>>

NextApi == \E api \in ApiObjects : ApiFrom(api)

SpecApi == Init /\ [][NextApi]_vars

IAwsApiFields ==
    {"restApiArn", "restApiId", "restApiName", "stageName", "invokeUrl",
     "deploymentId"}

\* C12 as stated: Api.from returns the object it was given exactly when the
\* object's runtime class is an AWS Api class, returns nothing for an object of
\* any other class, whatever its fields, and leaves the object as it was.
C12_FromNarrowsByRuntimeType ==
    result.op = "from" =>
        /\ result.defined <=> result.api.type \in AwsApiTypes
        /\ result.defined => result.value = result.api
        /\ result.api.type \notin AwsApiTypes => ~result.defined
        /\ result.after = result.api

\* C12 amended: Api.from returns the object it was given exactly when each of
\* the six IAwsApi fields of the object holds a string, whatever the object's
\* runtime class, so for every AWS Api object and for an object of another class
\* that carries the six string fields; it returns nothing otherwise, and leaves
\* the object as it was.
C12_FromNarrowsByShape ==
    result.op = "from" =>
        /\ result.defined <=>
              \A f \in IAwsApiFields : result.api[f].typeof = "string"
        /\ result.defined => result.value = result.api
        /\ ~result.defined => result.value = UndefinedApi
        /\ result.api.type \in AwsApiTypes => result.defined
        /\ result.after = result.api

\* C12 witness: an object of another target's class carrying the six string
\* fields was returned by Api.from.
C12_Witness ==
    /\ result.op = "from"
    /\ result.api.type \notin AwsApiTypes
    /\ \A f \in IAwsApiFields : result.api[f].typeof = "string"
    /\ result.defined
    /\ result.value = result.api

====
